---- MODULE Spec2Model ----
(***************************************************************************)
(* Video-generation orchestration of the Ad Factory server: the script     *)
(* store (storage.ts), the two provider adapters with their completion     *)
(* pollers (arcads.ts, wav2lip.ts) and the route handlers that drive them  *)
(* (routes.ts).                                                            *)
(*                                                                         *)
(* Scheduling.  The server is one Node.js event loop.  A handler runs      *)
(* until it awaits real I/O (a fetch to a provider, the speech call, a     *)
(* timer); awaits on the storage methods resolve on the microtask queue    *)
(* and give no other request a chance to run.  One action below is one     *)
(* such run.  Where one run writes the same script twice, the run is cut   *)
(* in two actions and the variable micro forces the second to follow at    *)
(* once, so that every stored value is a state of the model.               *)
(*                                                                         *)
(* The specifications:                                                     *)
(*   Spec        - the store, the handlers and the detached tasks;         *)
(*   FairSpec    - Spec with every detached step eventually taken;         *)
(*   PollSpec    - one completion poller fed every sequence of responses,  *)
(*                 with the attempt limits of the source;                  *)
(*   AdapterSpec - one provider adapter, created with or without its       *)
(*                 credential, and the start and status calls made on it.  *)
(***************************************************************************)
EXTENDS Integers, Sequences, FiniteSets, TLC

\* ---------------------------------------------------------------- bounds
\* requests (of any endpoint) issued in one behaviour
MaxRequests == 2
\* job attempts (detached chains) started in one behaviour
MaxTasks == 2
\* scripts created by one script-generation request
MaxBatch == 2
\* status queries one detached poller makes in Spec.  The attempt counter is
\* not visible outside the poller, so a smaller limit changes neither the
\* outcomes of a poller nor their interleavings; PollSpec runs the pollers
\* with the limits of the source.
MaxPolls == 2
\* largest maxAttempts argument given to the Arcads poller in PollSpec
MaxAttemptsArg == 4
\* start and status calls made on the adapter of AdapterSpec
MaxCalls == 3
\* updateSettings calls made on the store of SettingsSpec
MaxUpdates == 2
\* fields a partial settings object supplies
MaxSupplied == 2
\* startCronJobs calls of CronSpec
MaxCronStarts == 2
\* runs of the scheduled callback in CronSpec
MaxRuns == 2
\* scripts held by the store of StoreSpec
MaxStored == 2

\* ------------------------------------------------------ program constants
\* arcads.ts: maxAttempts: number = 30
ARCADS_DEFAULT_MAX_ATTEMPTS == 30
\* wav2lip.ts: const MAX_POLL_ATTEMPTS = 60
MAX_POLL_ATTEMPTS == 60

\* ------------------------------------------------------------ vocabulary
\* schema.ts: videoStatuses
videoStatuses == {"none", "pending", "generating", "complete", "failed"}
\* schema.ts: scriptStatuses
scriptStatuses == {"pending", "used", "archived"}
\* schema.ts: videoProviders
videoProviders == {"arcads", "wav2lip"}

\* the null of videoJobId; a provider's job ids are 1, 2, ...
NoJob == 0
\* the null of videoUrl / an absent video_url in a provider response
NoUrl == 0
\* the result URL a provider reports for job j: one URL per job
UrlOf(j) == j

\* request ids that name no stored script / a request body without scriptId
UnknownId == 0
MissingId == -1

Min(a, b) == IF a < b THEN a ELSE b

VARIABLES
    scripts,    \* FileStorage.scripts: sequence of script records, id = index
    cfg,        \* process.env and the stored settings
    tasks,      \* detached start/poll chains, one per accepted job attempt
    micro,      \* continuation that runs before the event loop takes new work
    reqCount,   \* number of requests issued
    lastReq,    \* the last request and the answer its handler gave at once
    poller,     \* PollSpec: the poller under test
    hist,       \* PollSpec: what the poller under test has been fed
    adapter,    \* AdapterSpec: one provider adapter and the calls made on it
    settings,   \* SettingsSpec: FileStorage.settings and the last object returned
    cron,       \* CronSpec: the scheduler, cron.ts cronJob and the callback's run
    call,       \* StoreSpec: the last call made on the script store
    retry       \* RetrySpec: one generateScripts call and its completion calls

vars == <<scripts, cfg, tasks, micro, reqCount, lastReq, poller, hist, adapter,
          settings, cron, call, retry>>

specVars == <<scripts, cfg, tasks, micro, reqCount, lastReq>>

pollVars == <<poller, hist>>

\* ================================================================ storage

\* storage.ts createManyScripts: videoStatus none, videoUrl null, job null
NewScript == [videoStatus |-> "none", videoUrl |-> NoUrl, videoJobId |-> NoJob]

\* an update that merges: a null URL keeps the stored one
updateScriptVideoKeepingUrl(S, id, videoStatus, videoUrl, videoJobId) ==
    IF id \in DOMAIN S
    THEN [S EXCEPT ![id] = [@ EXCEPT !.videoStatus = videoStatus,
                                    !.videoUrl = IF videoUrl = NoUrl
                                                 THEN @ ELSE videoUrl,
                                    !.videoJobId = videoJobId]]
    ELSE S

\* storage.ts updateScriptVideo: overwrite the three video fields of script
\* id, whatever they were; an unknown id changes nothing
updateScriptVideo(S, id, videoStatus, videoUrl, videoJobId) ==
    IF id \in DOMAIN S
    THEN [S EXCEPT ![id] = [@ EXCEPT !.videoStatus = videoStatus,
                                    !.videoUrl = videoUrl,
                                    !.videoJobId = videoJobId]]
    ELSE S

\* storage.ts getScriptsWithPendingVideos: the statuses of a job in progress
InProgress == {"pending", "generating"}

\* ================================================================ pollers

\* a provider's answer to one status query: the call throws (network error,
\* non-2xx), or it carries a status and possibly a result URL
StatusResponses(jobId) ==
    [throws : {TRUE}, status : {"processing"}, url : {NoUrl}]
    \cup [throws : {FALSE},
          status : {"pending", "processing", "completed", "complete", "failed"},
          url : {UrlOf(jobId), NoUrl}]

\* arcads.ts pollVideoCompletion, one loop iteration after the status query
ArcadsIteration(r) ==
    IF r.throws THEN "error"
    ELSE IF r.status = "completed" /\ r.url # NoUrl THEN "success"
    ELSE IF r.status = "failed" THEN "failed"
    ELSE "continue"

\* wav2lip.ts pollVideoCompletion, one loop iteration after the status
\* query: the throw for a failed status is inside the try block, so the
\* catch of the same iteration takes it, as it takes a throwing query
Wav2LipIteration(r) ==
    IF r.throws THEN "continue"
    ELSE IF r.status = "complete" THEN "success"
    ELSE "continue"

NewPoller(kind, maxAttempts) ==
    [kind |-> kind, max |-> maxAttempts, attempt |-> 0,
     outcome |-> "running", url |-> NoUrl]

\* a loop condition that lets one attempt too many through
CanQueryOffByOne(p) == p.outcome = "running" /\ p.attempt <= p.max

\* the poller may issue a status query
CanQuery(p) == p.outcome = "running" /\ p.attempt < p.max

\* the Arcads loop left without a result: throw "timed out"
CanExpire(p) == p.outcome = "running" /\ p.attempt >= p.max

\* one status query and what the loop does with the answer r
PollerStep(p, r) ==
    IF p.kind = "arcads"
    THEN LET it == ArcadsIteration(r) IN
         IF it = "continue" THEN [p EXCEPT !.attempt = @ + 1]
         ELSE [p EXCEPT !.outcome = it,
                        !.url = IF it = "success" THEN r.url ELSE NoUrl]
    ELSE LET it == Wav2LipIteration(r) IN
         IF it = "success" THEN [p EXCEPT !.outcome = "success", !.url = r.url]
         ELSE IF p.attempt + 1 >= p.max
              THEN [p EXCEPT !.attempt = @ + 1, !.outcome = "timeout"]
              ELSE [p EXCEPT !.attempt = @ + 1]

\* the loop condition fails: "Video generation timed out"
PollerExpire(p) == [p EXCEPT !.outcome = "timeout"]

\* =============================================================== adapters

\* what createArcadsService / createWav2LipService return for an empty
\* credential
NoService == "null"

\* arcads.ts generateVideo / checkVideoStatus: thrown before any fetch
KeyError == "Arcads API key not configured"
\* wav2lip.ts generateVideo: thrown when textToSpeech gave no audio
AudioError == "Failed to generate audio from script text"
\* both adapters: thrown for a non-2xx answer of the provider
ApiError == "API error"

\* arcads.ts createArcadsService: null without an API key
createArcadsService(apiKey) == IF ~apiKey THEN NoService ELSE "ArcadsService"

\* wav2lip.ts createWav2LipService: null without an API URL
createWav2LipService(apiUrl) == IF ~apiUrl THEN NoService ELSE "Wav2LipService"

\* the texts a script's hook, body and cta are drawn from
TextSamples == {"Stop", "a b", "Go!"}

\* the script handed to generateVideo
AdScripts == [hook : TextSamples, body : TextSamples, cta : TextSamples]

\* the script of an adapter on which generateVideo is not called
NoText == [hook |-> "", body |-> "", cta |-> ""]

\* a text built without separators
fullScriptUnspaced(script) == script.hook \o script.body \o script.cta

\* arcads.ts generateVideo fullScript, wav2lip.ts generateVideo fullText:
\* the template `${script.hook} ${script.body} ${script.cta}`
fullScript(script) == script.hook \o " " \o script.body \o " " \o script.cta

\* a key the provider's JSON answer does not have
NoKey == "undefined"

\* the JSON bodies a provider answers a request with
ResponseData ==
    [job_id : {NoKey, "job-snake"}, jobId : {NoKey, "job-camel"},
     id : {NoKey, "job-id"}, status : {NoKey, "processing"},
     video_url : {NoKey, "url-snake"}, videoUrl : {NoKey, "url-camel"}]

\* the job id checkVideoStatus is called with
StatusJobId == "job-asked"

\* a call that returned nothing
NoResponse == [jobId |-> NoKey, status |-> NoKey, videoUrl |-> NoKey]

\* a || b on strings: b when a is undefined (or empty)
OrElse(a, b) == IF a = NoKey \/ a = "" THEN b ELSE a

\* a parse that reads the camelCase keys first
ParseResponseCamelFirst(kind, op, data) ==
    IF kind = "arcads" /\ op = "generateVideo"
    THEN [jobId |-> OrElse(data.job_id, data.id),
          status |-> OrElse(data.status, "pending"),
          videoUrl |-> data.video_url]
    ELSE IF kind = "arcads"
    THEN [jobId |-> data.job_id, status |-> data.status,
          videoUrl |-> data.video_url]
    ELSE IF op = "generateVideo"
    THEN [jobId |-> OrElse(data.jobId, data.job_id),
          status |-> OrElse(data.status, "pending"),
          videoUrl |-> OrElse(data.videoUrl, data.video_url)]
    ELSE [jobId |-> StatusJobId, status |-> data.status,
          videoUrl |-> OrElse(data.videoUrl, data.video_url)]

\* what generateVideo and checkVideoStatus return for the answer data:
\* arcads.ts 65-69 and 96-100, wav2lip.ts 65-69 and 80-85
ParseResponse(kind, op, data) ==
    IF kind = "arcads" /\ op = "generateVideo"
    THEN [jobId |-> OrElse(data.job_id, data.id),
          status |-> OrElse(data.status, "pending"),
          videoUrl |-> data.video_url]
    ELSE IF kind = "arcads"
    THEN [jobId |-> data.job_id, status |-> data.status,
          videoUrl |-> data.video_url]
    ELSE IF op = "generateVideo"
    THEN [jobId |-> OrElse(data.job_id, data.jobId),
          status |-> OrElse(data.status, "pending"),
          videoUrl |-> OrElse(data.video_url, data.videoUrl)]
    ELSE [jobId |-> StatusJobId, status |-> data.status,
          videoUrl |-> OrElse(data.video_url, data.videoUrl)]

\* an adapter as created: credential says whether the API key (Arcads) or
\* the API URL (Wav2Lip) is a non-empty string; fetches counts the requests
\* sent to the provider, callFetches those of the call made last, op that
\* call, audio the buffer textToSpeech gave it (null: no audio), script the
\* script of the generateVideo calls, sent the text the last call submitted
\* (in the Arcads request body, or to the speech call), if it submitted one,
\* response what the last call returned
NewAdapter(kind, credential, openaiClient, service) ==
    [kind |-> kind, credential |-> credential, openaiClient |-> openaiClient,
     service |-> service, pc |-> "idle", op |-> "none", calls |-> 0,
     fetches |-> 0, callFetches |-> 0, speechCalls |-> 0, audio |-> "none",
     result |-> "none", script |-> NoText, sent |-> <<>>,
     response |-> NoResponse]

\* the adapter of the specifications that make no call on it
IdleAdapter == NewAdapter("arcads", TRUE, FALSE, "ArcadsService")

\* a key check that lets every call through
ApiKeyAssumed(a) == TRUE

\* arcads.ts generateVideo / checkVideoStatus: if (!this.apiKey) throw
ApiKeyPresent(a) == a.credential

\* a check of the audio buffer that lets null through
HasAudioUnchecked(audioBuffer) == TRUE

\* wav2lip.ts generateVideo: if (!audioBuffer) throw
HasAudio(audioBuffer) == audioBuffer # "null"

\* operation op is called on the adapter
AdapterCalled(a, op) ==
    [a EXCEPT !.op = op, !.calls = @ + 1, !.callFetches = 0,
              !.audio = "none", !.result = "none", !.sent = <<>>,
              !.response = NoResponse]

\* the call throws error
AdapterThrows(a, error) == [a EXCEPT !.pc = "idle", !.result = error]

\* the call sends its request to the provider and awaits the answer
AdapterFetches(a) ==
    [a EXCEPT !.pc = "fetch", !.fetches = @ + 1, !.callFetches = @ + 1]

\* wav2lip.ts generateVideo after textToSpeech returned audioBuffer
AdapterHasSpoken(a, audioBuffer) ==
    IF HasAudio(audioBuffer)
    THEN AdapterFetches([a EXCEPT !.audio = audioBuffer])
    ELSE AdapterThrows([a EXCEPT !.audio = audioBuffer], AudioError)

\* =============================================================== settings

\* schema.ts insertSettingsSchema: the fields a client may supply
InsertSettingsFields ==
    {"adminEmail", "dailyScriptCount", "autoGenerateEnabled",
     "productFeatures", "arcadsAvatarId", "autoGenerateVideos",
     "wav2lipApiUrl", "wav2lipAvatarImageUrl", "wav2lipEnabled",
     "preferredVideoProvider"}

\* schema.ts Settings: the fields of the stored object
SettingsFields == InsertSettingsFields \cup {"lastUpdated"}

\* storage.ts loadSettings: the fields of the defaults object
DefaultFields ==
    {"adminEmail", "dailyScriptCount", "autoGenerateEnabled",
     "productFeatures", "lastUpdated", "arcadsAvatarId", "autoGenerateVideos"}

\* storage.ts updateSettings: the fields the new settings object is built of,
\* next to lastUpdated
RebuiltFields ==
    {"adminEmail", "dailyScriptCount", "autoGenerateEnabled",
     "productFeatures", "arcadsAvatarId", "autoGenerateVideos"}

\* the fields of the self-hosted provider and the provider choice
Wav2LipFields ==
    {"wav2lipApiUrl", "wav2lipAvatarImageUrl", "wav2lipEnabled",
     "preferredVideoProvider"}

\* what reading a key gives that the object does not have
Undefined == -1

\* the value every field has at first; the update made at time k supplies k
InitialValue == 0

\* an object without keys
NoObject == [f \in {} |-> Undefined]

\* obj.f
Get(obj, f) == IF f \in DOMAIN obj THEN obj[f] ELSE Undefined

\* a ?? b
Coalesce(a, b) == IF a = Undefined THEN b ELSE a

\* { ...a, ...b }
Spread(a, b) ==
    [f \in DOMAIN a \cup DOMAIN b |-> IF f \in DOMAIN b THEN b[f] ELSE a[f]]

\* storage.ts loadSettings: the defaults, overridden by the saved file
loadSettings(saved) == Spread([f \in DefaultFields |-> InitialValue], saved)

\* storage.ts updateSettings: the object that replaces this.settings
updateSettings(stored, insert, now) ==
    [f \in RebuiltFields \cup {"lastUpdated"} |->
        IF f = "lastUpdated" THEN now
        ELSE Coalesce(Get(insert, f), Get(stored, f))]

\* the settings store as constructed on saved, before any call
NewSettings(saved) ==
    [stored |-> loadSettings(saved), returned |-> NoObject, clock |-> 0]

\* the settings store of the specifications that make no call on it
IdleSettings == NewSettings(NoObject)

\* =================================================================== cron

\* cron.ts: let cronJob = null
NoCronJob == 0

\* the run of the scheduled callback: the task that fired it, the await it
\* stands at, the number of generateScripts calls it made, the ids of the
\* scripts it stored, the number of emails it sent, the call that failed and
\* how the callback's promise settled
NoRun ==
    [task |-> NoCronJob, pc |-> "idle", count |-> 0, generated |-> 0,
     stored |-> {}, emails |-> 0, failedAt |-> "none", result |-> "none"]

\* an error that escapes the callback
RunUncaught(run, step) ==
    [run EXCEPT !.pc = "done", !.failedAt = step, !.result = "rejected"]

\* cron.ts 50-52: the catch around the whole callback body logs the error
RunCaught(run, step) ==
    [run EXCEPT !.pc = "done", !.failedAt = step, !.result = "resolved"]

\* the callback returns
RunReturns(run) == [run EXCEPT !.pc = "done", !.result = "resolved"]

\* the module as loaded: no job scheduled; autoGenerateEnabled and adminEmail
\* are the stored settings the callback reads
NewCron(autoGenerateEnabled, adminEmail) ==
    [cronJob |-> NoCronJob, scheduled |-> {}, created |-> 0,
     lastCall |-> "none", runs |-> 0, run |-> NoRun,
     autoGenerateEnabled |-> autoGenerateEnabled, adminEmail |-> adminEmail]

\* the scheduler of the specifications that make no call on it
IdleCron == NewCron(TRUE, FALSE)

\* ========================================================== script store

\* a job id and a result URL for the video writes of StoreSpec
StoreJob == 1

\* storage.ts createManyScripts on what generateScripts returns: status
\* pending and no video
NewStoredScript ==
    [status |-> "pending", videoStatus |-> "none", videoUrl |-> NoUrl,
     videoJobId |-> NoJob]

\* the arguments the call sites of updateScriptVideo pass: videoStatus,
\* videoUrl, videoJobId
VideoWrites ==
    {<<"pending", NoUrl, NoJob>>, <<"generating", NoUrl, StoreJob>>,
     <<"complete", UrlOf(StoreJob), StoreJob>>, <<"complete", NoUrl, StoreJob>>,
     <<"failed", NoUrl, StoreJob>>, <<"failed", NoUrl, NoJob>>}

\* an update that builds the record anew and keeps only the new status
updateScriptStatusAnew(S, id, status) ==
    IF id \in DOMAIN S
    THEN [S EXCEPT ![id] = [NewStoredScript EXCEPT !.status = status]]
    ELSE S

\* storage.ts updateScriptStatus: { ...this.scripts[index], status }; an
\* unknown id changes nothing
updateScriptStatus(S, id, status) ==
    IF id \in DOMAIN S
    THEN [S EXCEPT ![id] = [@ EXCEPT !.status = status]]
    ELSE S

\* what updateScriptStatus and updateScriptVideo return: the stored script,
\* or undefined (no element) for an unknown id
ReturnedScript(S, id) == IF id \in DOMAIN S THEN <<S[id]>> ELSE <<>>

\* storage.ts getScriptsWithPendingVideos
getScriptsWithPendingVideos(S) ==
    {i \in DOMAIN S : S[i].videoStatus = "pending"
                      \/ S[i].videoStatus = "generating"}

\* statistics that count a video as generating only once the provider has
\* taken the job
getStatsGeneratingOnly(S) ==
    [totalScripts |-> Len(S),
     pendingScripts |-> Cardinality({i \in DOMAIN S : S[i].status = "pending"}),
     usedScripts |-> Cardinality({i \in DOMAIN S : S[i].status = "used"}),
     archivedScripts |->
        Cardinality({i \in DOMAIN S : S[i].status = "archived"}),
     videosGenerating |->
        Cardinality({i \in DOMAIN S : S[i].videoStatus = "generating"}),
     videosComplete |->
        Cardinality({i \in DOMAIN S : S[i].videoStatus = "complete"})]

\* storage.ts getStats, without the dates
getStats(S) ==
    [totalScripts |-> Len(S),
     pendingScripts |-> Cardinality({i \in DOMAIN S : S[i].status = "pending"}),
     usedScripts |-> Cardinality({i \in DOMAIN S : S[i].status = "used"}),
     archivedScripts |->
        Cardinality({i \in DOMAIN S : S[i].status = "archived"}),
     videosGenerating |->
        Cardinality({i \in DOMAIN S : S[i].videoStatus = "generating"
                                      \/ S[i].videoStatus = "pending"}),
     videosComplete |->
        Cardinality({i \in DOMAIN S : S[i].videoStatus = "complete"})]

\* no call made on the store yet
IdleCall == [op |-> "none", id |-> UnknownId, returned |-> <<>>]

\* ======================================================== generateScripts

\* openai.ts: retries: 5
RETRIES == 5

\* a text as the sequence of its characters
UpperCase ==
    <<"A", "B", "C", "D", "E", "F", "G", "H", "I", "J", "K", "L", "M",
      "N", "O", "P", "Q", "R", "S", "T", "U", "V", "W", "X", "Y", "Z">>

LowerCase ==
    <<"a", "b", "c", "d", "e", "f", "g", "h", "i", "j", "k", "l", "m",
      "n", "o", "p", "q", "r", "s", "t", "u", "v", "w", "x", "y", "z">>

\* String.prototype.toLowerCase
toLowerCase(text) ==
    [i \in DOMAIN text |->
        IF \E k \in DOMAIN UpperCase : UpperCase[k] = text[i]
        THEN LowerCase[CHOOSE k \in DOMAIN UpperCase : UpperCase[k] = text[i]]
        ELSE text[i]]

\* String.prototype.includes
includes(text, part) ==
    \E i \in 1..(Len(text) - Len(part) + 1) :
        SubSeq(text, i, i + Len(part) - 1) = part

\* the messages of the errors the completion call is made to throw, each
\* with what it is: a rate-limit or quota error, or another error
ErrorSamples ==
    {[message |-> <<"4", "2", "9", " ", "s", "l", "o", "w">>,
      rateLimit |-> TRUE],
     [message |-> <<"R", "A", "T", "E", "L", "I", "M", "I", "T", "_",
                    "E", "X", "C", "E", "E", "D", "E", "D">>,
      rateLimit |-> TRUE],
     [message |-> <<"Q", "u", "o", "t", "a", " ", "u", "s", "e", "d">>,
      rateLimit |-> TRUE],
     [message |-> <<"R", "a", "t", "e", " ", "L", "i", "m", "i", "t">>,
      rateLimit |-> TRUE],
     [message |-> <<"5", "0", "0", " ", "d", "o", "w", "n">>,
      rateLimit |-> FALSE],
     [message |-> <<"E", "C", "O", "N", "N", "R", "E", "S", "E", "T">>,
      rateLimit |-> FALSE],
     [message |-> <<"b", "a", "d", " ", "k", "e", "y">>,
      rateLimit |-> FALSE]}

\* a check that takes every error for a rate-limit error
isRateLimitErrorAlways(errorMsg) == TRUE

\* openai.ts isRateLimitError
isRateLimitError(errorMsg) ==
    \/ includes(errorMsg, <<"4", "2", "9">>)
    \/ includes(errorMsg, <<"R", "A", "T", "E", "L", "I", "M", "I", "T", "_",
                            "E", "X", "C", "E", "E", "D", "E", "D">>)
    \/ includes(toLowerCase(errorMsg), <<"q", "u", "o", "t", "a">>)
    \/ includes(toLowerCase(errorMsg),
                <<"r", "a", "t", "e", " ", "l", "i", "m", "i", "t">>)

\* one generateScripts call for count scripts: the number of completion
\* calls made, what each failed call threw (rate limit or not, in order),
\* the message thrown last, how the promise settled and the number of
\* scripts it returned
NewRetry(count) ==
    [pc |-> "idle", count |-> count, calls |-> 0, errors |-> <<>>,
     lastError |-> <<>>, result |-> "none", returned |-> 0]

\* generateScripts of the specifications that do not call it
IdleRetry == NewRetry(1)

\* generateScripts rejects: the catch at 176-179 rethrows
RetryRejects(r) == [r EXCEPT !.pc = "done", !.result = "rejected"]

\* p-retry after the completion call threw error: an AbortError (the error
\* was no rate-limit error) and the failure of the last attempt reject,
\* another failure is retried after the backoff
RetryFailed(r, error) ==
    LET s == [r EXCEPT !.errors = Append(@, error.rateLimit),
                       !.lastError = error.message] IN
    IF ~isRateLimitError(error.message) THEN RetryRejects(s)
    ELSE IF r.calls > RETRIES THEN RetryRejects(s)
    ELSE [s EXCEPT !.pc = "backoff"]

\* ============================================================ event loop

NoMicro == [task |-> 0, batch |-> <<>>]

\* an event loop that takes new work between two microtasks
IdleBetweenMicrotasks == TRUE

\* nothing is left on the microtask queue: the loop may take a new request,
\* a provider answer or a timer
Idle == micro = NoMicro

\* a detached chain: the promise chain one accepted request hangs on a
\* provider adapter's generateVideo call.  http is the answer the request
\* got (0: not sent yet); wrote is the set of statuses the chain has stored.
NewTask(kind, id, pc, http) ==
    [kind |-> kind, script |-> id, pc |-> pc, http |-> http, jobId |-> NoJob,
     poll |-> NewPoller(IF kind = "wav2lip" THEN "wav2lip" ELSE "arcads", 0),
     startFailed |-> FALSE, wrote |-> {"pending"}]

\* attempt limit of the poller a call site starts (the call sites pass no
\* maxAttempts), cut to MaxPolls
PollLimit(kind) ==
    IF kind = "wav2lip" THEN Min(MAX_POLL_ATTEMPTS, MaxPolls)
    ELSE Min(ARCADS_DEFAULT_MAX_ATTEMPTS, MaxPolls)

\* the job id a provider hands out for the start call of chain t
JobIdOf(t) == t

\* a request and the error its handler answered with ("" when it went on)
Request(endpoint, id, error) ==
    [endpoint |-> endpoint, script |-> id, error |-> error]

\* the HTTP status the handler sent with the request (0: none so far)
CodeOf(req) ==
    CASE req.error = "" -> IF req.endpoint = "arcads" THEN 0 ELSE 200
      [] req.error = "Script not found" -> 404
      [] req.error = "Failed to generate scripts" -> 500
      [] OTHER -> 400

RequestIds == {UnknownId} \cup DOMAIN scripts

\* ============================================================== handlers

\* routes.ts POST /api/scripts/:id/generate-video, up to the await of
\* arcads.generateVideo: 404 for an unknown script, 400 without the API key,
\* else write pending and call the adapter (the answer is sent later)
ArcadsGenerateVideo(id) ==
    /\ Idle
    /\ reqCount < MaxRequests
    /\ reqCount' = reqCount + 1
    /\ UNCHANGED <<cfg, micro, pollVars, adapter, settings, cron, call, retry>>
    /\ IF id \notin DOMAIN scripts
       THEN /\ lastReq' = Request("arcads", id, "Script not found")
            /\ UNCHANGED <<scripts, tasks>>
       ELSE IF ~cfg.arcadsApiKey
       THEN /\ lastReq' = Request("arcads", id, "Arcads API key not configured")
            /\ UNCHANGED <<scripts, tasks>>
       ELSE /\ Len(tasks) < MaxTasks
            /\ lastReq' = Request("arcads", id, "")
            /\ scripts' = updateScriptVideo(scripts, id, "pending", NoUrl, NoJob)
            /\ tasks' = Append(tasks, NewTask("arcads", id, "starting", 0))

\* the checks without those of the provider configuration
Wav2LipRejectionUnconfigured(id, avatarImageUrl) ==
    IF id = MissingId THEN "Script ID is required"
    ELSE IF id \notin DOMAIN scripts THEN "Script not found"
    ELSE IF scripts[id].videoStatus \in InProgress
         THEN "Video is already being processed"
    ELSE ""

\* the checks with the settings looked at before the script is loaded
Wav2LipRejectionSettingsFirst(id, avatarImageUrl) ==
    IF id = MissingId THEN "Script ID is required"
    ELSE IF ~cfg.wav2lipApiUrl THEN "Wav2Lip API URL not configured in settings"
    ELSE IF id \notin DOMAIN scripts THEN "Script not found"
    ELSE IF scripts[id].videoStatus \in InProgress
         THEN "Video is already being processed"
    ELSE IF ~(avatarImageUrl \/ cfg.wav2lipAvatarImageUrl)
         THEN "Avatar image URL is required"
    ELSE ""

\* checks that let only a script without any earlier video through
Wav2LipRejectionOnlyFresh(id, avatarImageUrl) ==
    IF id = MissingId THEN "Script ID is required"
    ELSE IF id \notin DOMAIN scripts THEN "Script not found"
    ELSE IF scripts[id].videoStatus # "none"
         THEN "Video is already being processed"
    ELSE IF ~cfg.wav2lipApiUrl THEN "Wav2Lip API URL not configured in settings"
    ELSE IF ~(avatarImageUrl \/ cfg.wav2lipAvatarImageUrl)
         THEN "Avatar image URL is required"
    ELSE ""

\* routes.ts POST /api/wav2lip/generate-video: the error the checks of the
\* handler answer with, in the order of the source ("": all passed)
Wav2LipRejection(id, avatarImageUrl) ==
    IF id = MissingId THEN "Script ID is required"
    ELSE IF id \notin DOMAIN scripts THEN "Script not found"
    ELSE IF scripts[id].videoStatus \in InProgress
         THEN "Video is already being processed"
    ELSE IF ~cfg.wav2lipApiUrl THEN "Wav2Lip API URL not configured in settings"
    ELSE IF ~(avatarImageUrl \/ cfg.wav2lipAvatarImageUrl)
         THEN "Avatar image URL is required"
    ELSE ""

\* routes.ts POST /api/wav2lip/generate-video, the whole handler: the checks,
\* then write pending, call the adapter and answer "started".  Without a
\* speech client textToSpeech returns null with no I/O and the rejection is
\* handled before the loop takes new work.
Wav2LipGenerateVideo(id, avatarImageUrl) ==
    /\ Idle
    /\ reqCount < MaxRequests
    /\ reqCount' = reqCount + 1
    /\ UNCHANGED <<cfg, pollVars, adapter, settings, cron, call, retry>>
    /\ lastReq' = Request("wav2lip", id, Wav2LipRejection(id, avatarImageUrl))
    /\ IF Wav2LipRejection(id, avatarImageUrl) # ""
       THEN UNCHANGED <<scripts, tasks, micro>>
       ELSE /\ Len(tasks) < MaxTasks
            /\ scripts' = updateScriptVideo(scripts, id, "pending", NoUrl, NoJob)
            /\ IF cfg.openaiClient
               THEN /\ tasks' = Append(tasks, NewTask("wav2lip", id, "tts", 200))
                    /\ micro' = micro
               ELSE /\ tasks' = Append(tasks, NewTask("wav2lip", id, "noTts", 200))
                    /\ micro' = [micro EXCEPT !.task = Len(tasks) + 1]

\* routes.ts POST /api/scripts/generate after generateScripts answered:
\* a failure answers 500; else createManyScripts stores n new scripts,
\* triggerVideoGeneration is called on them and the answer is sent
GenerateScripts(n, ok) ==
    /\ Idle
    /\ reqCount < MaxRequests
    /\ reqCount' = reqCount + 1
    /\ UNCHANGED <<cfg, tasks, pollVars, adapter, settings, cron, call, retry>>
    /\ IF ~ok
       THEN /\ lastReq' = Request("generate", UnknownId,
                                  "Failed to generate scripts")
            /\ UNCHANGED <<scripts, micro>>
       ELSE /\ (cfg.arcadsApiKey /\ cfg.autoGenerateVideos)
                  => Len(tasks) + n <= MaxTasks
            /\ lastReq' = Request("generate", UnknownId, "")
            /\ scripts' = scripts \o [i \in 1..n |-> NewScript]
            /\ micro' = [micro EXCEPT
                           !.batch = [i \in 1..n |->
                                        [id |-> Len(scripts) + i,
                                         videoStatus |-> NewScript.videoStatus]]]

\* a batch loop that does not look at the key and the setting
TriggerVideoGenerationAlways ==
    /\ micro.batch # <<>>
    /\ UNCHANGED <<cfg, reqCount, lastReq, pollVars, adapter, settings, cron, call, retry>>
    /\ LET script == Head(micro.batch)
           id == script.id IN
       /\ micro' = [micro EXCEPT !.batch = Tail(@)]
       /\ IF script.videoStatus # "none"
          THEN UNCHANGED <<scripts, tasks>>
          ELSE /\ scripts' = updateScriptVideo(scripts, id, "pending",
                                               NoUrl, NoJob)
               /\ tasks' = Append(tasks,
                                  NewTask("batch", id, "starting", 200))

\* routes.ts triggerVideoGeneration: return at once without the API key or
\* with autoGenerateVideos off; else one loop iteration: skip a script whose
\* status (in the object createManyScripts returned) is not none, else write
\* pending and call arcads.generateVideo
TriggerVideoGeneration ==
    /\ micro.batch # <<>>
    /\ UNCHANGED <<cfg, reqCount, lastReq, pollVars, adapter, settings, cron, call, retry>>
    /\ LET script == Head(micro.batch)
           id == script.id IN
       IF ~cfg.arcadsApiKey \/ ~cfg.autoGenerateVideos
       THEN /\ micro' = [micro EXCEPT !.batch = <<>>]
            /\ UNCHANGED <<scripts, tasks>>
       ELSE /\ micro' = [micro EXCEPT !.batch = Tail(@)]
            /\ IF script.videoStatus # "none"
               THEN UNCHANGED <<scripts, tasks>>
               ELSE /\ scripts' = updateScriptVideo(scripts, id, "pending",
                                                    NoUrl, NoJob)
                    /\ tasks' = Append(tasks,
                                       NewTask("batch", id, "starting", 200))

\* ======================================================== detached tasks

\* a .then that starts the poller without storing generating
StartAcceptedUnrecorded(t, http) ==
    /\ scripts' = scripts
    /\ tasks' = [tasks EXCEPT ![t] = [@ EXCEPT
                    !.pc = "polling", !.http = http, !.jobId = JobIdOf(t),
                    !.poll = NewPoller(@.kind, PollLimit(tasks[t].kind))]]

\* a .then that stores generating without the job id of the response
StartAcceptedNoJobId(t, http) ==
    /\ scripts' = updateScriptVideo(scripts, tasks[t].script, "generating",
                                    NoUrl, NoJob)
    /\ tasks' = [tasks EXCEPT ![t] = [@ EXCEPT
                    !.pc = "polling", !.http = http, !.jobId = JobIdOf(t),
                    !.poll = NewPoller(@.kind, PollLimit(tasks[t].kind)),
                    !.wrote = @ \cup {"generating"}]]

\* after a start call was accepted with job id JobIdOf(t):
\* updateScriptVideo(id, "generating", null, response.jobId), then
\* pollVideoCompletion(response.jobId) is called
StartAccepted(t, http) ==
    /\ scripts' = updateScriptVideo(scripts, tasks[t].script, "generating",
                                    NoUrl, JobIdOf(t))
    /\ tasks' = [tasks EXCEPT ![t] = [@ EXCEPT
                    !.pc = "polling", !.http = http, !.jobId = JobIdOf(t),
                    !.poll = NewPoller(@.kind, PollLimit(tasks[t].kind)),
                    !.wrote = @ \cup {"generating"}]]

\* a handler that awaits the poller before it answers
ArcadsStartedUnanswered(t) ==
    /\ Idle
    /\ t \in DOMAIN tasks
    /\ tasks[t].kind = "arcads" /\ tasks[t].pc = "starting"
    /\ StartAccepted(t, 0)
    /\ UNCHANGED <<cfg, micro, reqCount, lastReq, pollVars, adapter, settings, cron, call, retry>>

\* routes.ts POST /api/scripts/:id/generate-video after arcads.generateVideo
\* resolved: write generating, answer "started", start the poller
ArcadsStarted(t) ==
    /\ Idle
    /\ t \in DOMAIN tasks
    /\ tasks[t].kind = "arcads" /\ tasks[t].pc = "starting"
    /\ StartAccepted(t, 200)
    /\ UNCHANGED <<cfg, micro, reqCount, lastReq, pollVars, adapter, settings, cron, call, retry>>

\* routes.ts POST /api/scripts/:id/generate-video after arcads.generateVideo
\* rejected (non-2xx answer, network error): the handler's catch answers 500
\* and writes nothing
ArcadsStartFailed(t) ==
    /\ Idle
    /\ t \in DOMAIN tasks
    /\ tasks[t].kind = "arcads" /\ tasks[t].pc = "starting"
    /\ tasks' = [tasks EXCEPT ![t] = [@ EXCEPT
                    !.pc = "done", !.http = 500, !.startFailed = TRUE]]
    /\ UNCHANGED <<scripts, cfg, micro, reqCount, lastReq, pollVars, adapter, settings, cron, call, retry>>

\* routes.ts triggerVideoGeneration / POST /api/wav2lip/generate-video, the
\* .then of generateVideo: write generating and start the poller
DetachedStarted(t) ==
    /\ Idle
    /\ t \in DOMAIN tasks
    /\ tasks[t].kind \in {"batch", "wav2lip"} /\ tasks[t].pc = "starting"
    /\ StartAccepted(t, tasks[t].http)
    /\ UNCHANGED <<cfg, micro, reqCount, lastReq, pollVars, adapter, settings, cron, call, retry>>

\* a .catch that gives up every job in progress with the one that failed
StartRejectedTogether(t) ==
    /\ scripts' = [id \in DOMAIN scripts |->
                     IF id = tasks[t].script
                        \/ scripts[id].videoStatus \in InProgress
                     THEN [scripts[id] EXCEPT !.videoStatus = "failed",
                                              !.videoUrl = NoUrl,
                                              !.videoJobId = NoJob]
                     ELSE scripts[id]]
    /\ tasks' = [tasks EXCEPT ![t] = [@ EXCEPT
                    !.pc = "done", !.startFailed = TRUE,
                    !.wrote = @ \cup {"failed"}]]

\* the outer .catch of both detached call sites:
\* updateScriptVideo(id, "failed", null, null)
StartRejected(t) ==
    /\ scripts' = updateScriptVideo(scripts, tasks[t].script, "failed",
                                    NoUrl, NoJob)
    /\ tasks' = [tasks EXCEPT ![t] = [@ EXCEPT
                    !.pc = "done", !.startFailed = TRUE,
                    !.wrote = @ \cup {"failed"}]]

\* the provider rejected the start call of a detached call site
DetachedStartFailed(t) ==
    /\ Idle
    /\ t \in DOMAIN tasks
    /\ tasks[t].kind \in {"batch", "wav2lip"} /\ tasks[t].pc = "starting"
    /\ StartRejected(t)
    /\ UNCHANGED <<cfg, micro, reqCount, lastReq, pollVars, adapter, settings, cron, call, retry>>

\* wav2lip.ts generateVideo after the speech call answered: with audio the
\* video request is sent; when the call threw, textToSpeech returns null and
\* generateVideo throws
TextToSpeechDone(t, ok) ==
    /\ Idle
    /\ t \in DOMAIN tasks
    /\ tasks[t].pc = "tts"
    /\ UNCHANGED <<cfg, micro, reqCount, lastReq, pollVars, adapter, settings, cron, call, retry>>
    /\ IF ok
       THEN /\ tasks' = [tasks EXCEPT ![t] = [@ EXCEPT !.pc = "starting"]]
            /\ UNCHANGED scripts
       ELSE StartRejected(t)

\* wav2lip.ts generateVideo without a speech client: textToSpeech returned
\* null, generateVideo throws, the .catch writes failed
NoSpeechClient(t) ==
    /\ micro.task = t
    /\ t \in DOMAIN tasks
    /\ tasks[t].pc = "noTts"
    /\ micro' = [micro EXCEPT !.task = 0]
    /\ StartRejected(t)
    /\ UNCHANGED <<cfg, reqCount, lastReq, pollVars, adapter, settings, cron, call, retry>>

\* the poller of a settled job: its loop counter ends with the call
Settled(p) == [p EXCEPT !.attempt = 0]

\* a poll chain without its .catch: a rejected poll stores nothing
PollSettledUncaught(t, p) ==
    /\ scripts' = IF p.outcome = "success"
                  THEN updateScriptVideo(scripts, tasks[t].script, "complete",
                                         p.url, tasks[t].jobId)
                  ELSE scripts
    /\ tasks' = [tasks EXCEPT ![t] = [@ EXCEPT
                    !.pc = "done", !.poll = Settled(p),
                    !.wrote = IF p.outcome = "success"
                              THEN @ \cup {"complete"} ELSE @]]

\* the .then / .catch on pollVideoCompletion, the same at the three call
\* sites: success writes complete with result.videoUrl || null, a rejection
\* writes failed with a null URL; both keep the job id
PollSettled(t, p) ==
    LET id == tasks[t].script
        st == IF p.outcome = "success" THEN "complete" ELSE "failed" IN
    /\ scripts' = updateScriptVideo(scripts, id, st, p.url, tasks[t].jobId)
    /\ tasks' = [tasks EXCEPT ![t] = [@ EXCEPT
                    !.pc = "done", !.poll = Settled(p),
                    !.wrote = @ \cup {st}]]

\* a poller's status query is answered with r
PollQuery(t, r) ==
    /\ Idle
    /\ t \in DOMAIN tasks
    /\ tasks[t].pc = "polling"
    /\ CanQuery(tasks[t].poll)
    /\ r \in StatusResponses(tasks[t].jobId)
    /\ UNCHANGED <<cfg, micro, reqCount, lastReq, pollVars, adapter, settings, cron, call, retry>>
    /\ LET p == PollerStep(tasks[t].poll, r) IN
       IF p.outcome = "running"
       THEN /\ tasks' = [tasks EXCEPT ![t] = [@ EXCEPT !.poll = p]]
            /\ UNCHANGED scripts
       ELSE PollSettled(t, p)

\* the Arcads poller's loop ends after its last sleep
PollExpired(t) ==
    /\ Idle
    /\ t \in DOMAIN tasks
    /\ tasks[t].pc = "polling"
    /\ CanExpire(tasks[t].poll)
    /\ PollSettled(t, PollerExpire(tasks[t].poll))
    /\ UNCHANGED <<cfg, micro, reqCount, lastReq, pollVars, adapter, settings, cron, call, retry>>

\* ========================================================= specification

\* process.env (ARCADS_API_KEY, the speech credentials) and the settings
\* file, as present or absent
Configs ==
    [arcadsApiKey : BOOLEAN, autoGenerateVideos : BOOLEAN,
     wav2lipApiUrl : BOOLEAN, wav2lipAvatarImageUrl : BOOLEAN,
     openaiClient : BOOLEAN, preferredVideoProvider : videoProviders]

IdlePoller == NewPoller("arcads", 0)

\* what a poller has been fed: the number of status queries, the last
\* answer, whether an answer said failed, whether a query followed such an
\* answer, whether every answer so far said processing, and whether every
\* answer before the last was plain (see Plain)
NoAnswer == [throws |-> FALSE, status |-> "none", url |-> NoUrl]

NoHist == [queries |-> 0, last |-> NoAnswer, failedSeen |-> FALSE,
           afterFailed |-> FALSE, onlyProcessing |-> TRUE, plain |-> TRUE]

\* the status word a provider reports a finished video with
\* (arcads.ts ArcadsStatusResponse; wav2lip.ts pollVideoCompletion)
CompletionWord(kind) == IF kind = "arcads" THEN "completed" ELSE "complete"

\* answer r of provider kind shows completion together with a result URL
ShowsResult(kind, r) ==
    ~r.throws /\ r.status = CompletionWord(kind) /\ r.url # NoUrl

\* answer r is an answer, does not say failed and shows no result
Plain(kind, r) == ~r.throws /\ r.status # "failed" /\ ~ShowsResult(kind, r)

\* the server starts on a scripts file that holds one script without a video
Init ==
    /\ scripts = <<NewScript>>
    /\ cfg \in Configs
    /\ tasks = <<>>
    /\ micro = NoMicro
    /\ reqCount = 0
    /\ lastReq = Request("none", UnknownId, "")
    /\ poller = IdlePoller
    /\ hist = NoHist
    /\ adapter = IdleAdapter
    /\ settings = IdleSettings
    /\ cron = IdleCron
    /\ call = IdleCall
    /\ retry = IdleRetry

TaskIds == 1..MaxTasks

Next ==
    \/ \E id \in RequestIds : ArcadsGenerateVideo(id)
    \/ \E id \in RequestIds \cup {MissingId}, a \in BOOLEAN :
          Wav2LipGenerateVideo(id, a)
    \/ \E n \in 1..MaxBatch, ok \in BOOLEAN : GenerateScripts(n, ok)
    \/ TriggerVideoGeneration
    \/ \E t \in TaskIds : ArcadsStarted(t)
    \/ \E t \in TaskIds : ArcadsStartFailed(t)
    \/ \E t \in TaskIds : DetachedStarted(t)
    \/ \E t \in TaskIds : DetachedStartFailed(t)
    \/ \E t \in TaskIds, ok \in BOOLEAN : TextToSpeechDone(t, ok)
    \/ \E t \in TaskIds : NoSpeechClient(t)
    \/ \E t \in TaskIds : \E r \in StatusResponses(JobIdOf(t)) : PollQuery(t, r)
    \/ \E t \in TaskIds : PollExpired(t)

Spec == Init /\ [][Next]_vars

\* every provider call answers (or throws) and every timer fires, so each
\* step of a detached chain is eventually taken; nobody has to send requests
Detached(t) ==
    \/ ArcadsStarted(t) \/ ArcadsStartFailed(t)
    \/ DetachedStarted(t) \/ DetachedStartFailed(t)
    \/ \E ok \in BOOLEAN : TextToSpeechDone(t, ok)
    \/ NoSpeechClient(t)
    \/ \E r \in StatusResponses(JobIdOf(t)) : PollQuery(t, r)
    \/ PollExpired(t)

FairSpec ==
    /\ Spec
    /\ WF_vars(TriggerVideoGeneration)
    /\ \A t \in TaskIds : WF_vars(Detached(t))

\* ------------------------------------------------------------- PollSpec
\* one poller, called with job id 1, fed any sequence of answers

PollJob == 1

PollInit ==
    /\ scripts = <<NewScript>>
    /\ cfg = [arcadsApiKey |-> TRUE, autoGenerateVideos |-> FALSE,
              wav2lipApiUrl |-> TRUE, wav2lipAvatarImageUrl |-> TRUE,
              openaiClient |-> TRUE, preferredVideoProvider |-> "arcads"]
    /\ tasks = <<>>
    /\ micro = NoMicro
    /\ reqCount = 0
    /\ lastReq = Request("none", UnknownId, "")
    /\ poller \in {NewPoller("arcads", n) :
                      n \in (0..MaxAttemptsArg)
                            \cup {ARCADS_DEFAULT_MAX_ATTEMPTS}}
                  \cup {NewPoller("wav2lip", MAX_POLL_ATTEMPTS)}
    /\ hist = NoHist
    /\ adapter = IdleAdapter
    /\ settings = IdleSettings
    /\ cron = IdleCron
    /\ call = IdleCall
    /\ retry = IdleRetry

\* pollVideoCompletion: one status query, answered with r
PollerQuery(r) ==
    /\ CanQuery(poller)
    /\ poller' = PollerStep(poller, r)
    /\ hist' = [queries |-> hist.queries + 1,
                last |-> r,
                failedSeen |-> hist.failedSeen
                               \/ (~r.throws /\ r.status = "failed"),
                afterFailed |-> hist.afterFailed \/ hist.failedSeen,
                onlyProcessing |-> hist.onlyProcessing /\ ~r.throws
                                   /\ r.status = "processing",
                plain |-> hist.plain /\ Plain(poller.kind, hist.last)]
    /\ UNCHANGED <<specVars, adapter, settings, cron, call, retry>>

\* pollVideoCompletion: the loop condition fails
PollerTimeout ==
    /\ CanExpire(poller)
    /\ poller' = PollerExpire(poller)
    /\ UNCHANGED <<hist, specVars, adapter, settings, cron, call, retry>>

PollNext ==
    \/ \E r \in StatusResponses(PollJob) : PollerQuery(r)
    \/ PollerTimeout

PollSpec == PollInit /\ [][PollNext]_vars

\* ---------------------------------------------------------- AdapterSpec
\* one adapter, created by its factory or (Arcads) by its constructor, with
\* or without its credential; generateVideo and checkVideoStatus are called
\* on it, one call at a time

AdapterInit ==
    /\ scripts = <<NewScript>>
    /\ cfg = [arcadsApiKey |-> TRUE, autoGenerateVideos |-> FALSE,
              wav2lipApiUrl |-> TRUE, wav2lipAvatarImageUrl |-> TRUE,
              openaiClient |-> TRUE, preferredVideoProvider |-> "arcads"]
    /\ tasks = <<>>
    /\ micro = NoMicro
    /\ reqCount = 0
    /\ lastReq = Request("none", UnknownId, "")
    /\ poller = IdlePoller
    /\ hist = NoHist
    /\ settings = IdleSettings
    /\ cron = IdleCron
    /\ call = IdleCall
    /\ retry = IdleRetry
    /\ \E a \in
          {NewAdapter("arcads", k, FALSE, "ArcadsService") : k \in BOOLEAN}
          \cup {NewAdapter("arcads", k, FALSE, createArcadsService(k)) :
                   k \in BOOLEAN}
          \cup {NewAdapter("wav2lip", u, c, createWav2LipService(u)) :
                   u \in BOOLEAN, c \in BOOLEAN} :
          \E script \in AdScripts : adapter = [a EXCEPT !.script = script]

\* a call can be made on a service that exists and is not busy
AdapterReady ==
    /\ adapter.service # NoService
    /\ adapter.pc = "idle"
    /\ adapter.calls < MaxCalls

\* arcads.ts / wav2lip.ts generateVideo, up to the first await of I/O:
\* the Arcads key check, or textToSpeech, which returns null at once
\* without a client
AdapterGenerateVideo ==
    /\ AdapterReady
    /\ UNCHANGED <<specVars, pollVars, settings, cron, call, retry>>
    /\ LET a == AdapterCalled(adapter, "generateVideo")
           text == <<fullScript(adapter.script)>> IN
       IF adapter.kind = "arcads"
       THEN adapter' = IF ~ApiKeyPresent(a)
                       THEN AdapterThrows(a, KeyError)
                       ELSE AdapterFetches([a EXCEPT !.sent = text])
       ELSE IF adapter.openaiClient
       THEN adapter' = [a EXCEPT !.speechCalls = @ + 1, !.pc = "tts",
                                 !.sent = text]
       ELSE adapter' = AdapterHasSpoken(a, "null")

\* wav2lip.ts textToSpeech after the speech call answered (ok) or threw,
\* and generateVideo after it
AdapterSpeechAnswered(ok) ==
    /\ adapter.pc = "tts"
    /\ UNCHANGED <<specVars, pollVars, settings, cron, call, retry>>
    /\ adapter' = AdapterHasSpoken(adapter, IF ok THEN "audio" ELSE "null")

\* arcads.ts / wav2lip.ts checkVideoStatus, up to the fetch
AdapterCheckVideoStatus ==
    /\ AdapterReady
    /\ UNCHANGED <<specVars, pollVars, settings, cron, call, retry>>
    /\ LET a == AdapterCalled(adapter, "checkVideoStatus") IN
       adapter' = IF adapter.kind = "arcads" /\ ~ApiKeyPresent(a)
                  THEN AdapterThrows(a, KeyError)
                  ELSE AdapterFetches(a)

\* the provider answered the fetch: the body data of a 2xx answer is parsed
\* and returned, another answer throws
AdapterFetchAnswered(ok, data) ==
    /\ adapter.pc = "fetch"
    /\ UNCHANGED <<specVars, pollVars, settings, cron, call, retry>>
    /\ adapter' = [adapter EXCEPT
                      !.pc = "idle",
                      !.result = IF ok THEN "ok" ELSE ApiError,
                      !.response = IF ok
                                   THEN ParseResponse(adapter.kind,
                                                      adapter.op, data)
                                   ELSE NoResponse]

AdapterNext ==
    \/ AdapterGenerateVideo
    \/ \E ok \in BOOLEAN : AdapterSpeechAnswered(ok)
    \/ AdapterCheckVideoStatus
    \/ \E ok \in BOOLEAN, data \in ResponseData :
          AdapterFetchAnswered(ok, data)

AdapterSpec == AdapterInit /\ [][AdapterNext]_vars

\* --------------------------------------------------------- SettingsSpec
\* the settings store, loaded with or without a saved file that holds the
\* self-hosted provider's fields; updateSettings and getSettings are called

\* the partial objects a client sends at time now: up to MaxSupplied fields
PartialSettings(now) ==
    UNION {[D -> {now}] : D \in {E \in SUBSET InsertSettingsFields :
                                    Cardinality(E) <= MaxSupplied}}

SettingsInit ==
    /\ scripts = <<NewScript>>
    /\ cfg = [arcadsApiKey |-> TRUE, autoGenerateVideos |-> FALSE,
              wav2lipApiUrl |-> TRUE, wav2lipAvatarImageUrl |-> TRUE,
              openaiClient |-> TRUE, preferredVideoProvider |-> "arcads"]
    /\ tasks = <<>>
    /\ micro = NoMicro
    /\ reqCount = 0
    /\ lastReq = Request("none", UnknownId, "")
    /\ poller = IdlePoller
    /\ hist = NoHist
    /\ adapter = IdleAdapter
    /\ settings \in {NewSettings(NoObject),
                     NewSettings([f \in Wav2LipFields |-> InitialValue])}
    /\ cron = IdleCron
    /\ call = IdleCall
    /\ retry = IdleRetry

\* storage.ts updateSettings(insert): replace this.settings, save, return a
\* copy
UpdateSettings(insert) ==
    /\ settings.clock < MaxUpdates
    /\ LET now == settings.clock + 1
           new == updateSettings(settings.stored, insert, now) IN
       settings' = [stored |-> new, returned |-> new, clock |-> now]
    /\ UNCHANGED <<specVars, pollVars, adapter, cron, call, retry>>

\* storage.ts getSettings: return a copy of this.settings
GetSettings ==
    /\ settings' = [settings EXCEPT !.returned = settings.stored]
    /\ UNCHANGED <<specVars, pollVars, adapter, cron, call, retry>>

SettingsNext ==
    \/ \E insert \in PartialSettings(settings.clock + 1) :
          UpdateSettings(insert)
    \/ GetSettings

SettingsSpec == SettingsInit /\ [][SettingsNext]_vars

\* ------------------------------------------------------------- CronSpec
\* cron.ts: startCronJobs and stopCronJobs are called in any order, the
\* scheduler fires the tasks that are active, one run of the callback at a
\* time

CronInit ==
    /\ scripts = <<NewScript>>
    /\ cfg \in [arcadsApiKey : {TRUE}, autoGenerateVideos : BOOLEAN,
                wav2lipApiUrl : {TRUE}, wav2lipAvatarImageUrl : {TRUE},
                openaiClient : {TRUE}, preferredVideoProvider : {"arcads"}]
    /\ tasks = <<>>
    /\ micro = NoMicro
    /\ reqCount = 0
    /\ lastReq = Request("none", UnknownId, "")
    /\ poller = IdlePoller
    /\ hist = NoHist
    /\ adapter = IdleAdapter
    /\ settings = IdleSettings
    /\ cron \in {NewCron(e, m) : e \in BOOLEAN, m \in BOOLEAN}
    /\ call = IdleCall
    /\ retry = IdleRetry

\* cron.ts startCronJobs: cronJob = cron.schedule(...)
StartCronJobs ==
    /\ cron.created < MaxCronStarts
    /\ LET task == cron.created + 1 IN
       cron' = [cron EXCEPT !.cronJob = task, !.scheduled = @ \cup {task},
                            !.created = task, !.lastCall = "start"]
    /\ UNCHANGED <<specVars, pollVars, adapter, settings, call, retry>>

\* cron.ts stopCronJobs: if (cronJob) { cronJob.stop(); cronJob = null }
StopCronJobs ==
    /\ cron' = IF cron.cronJob # NoCronJob
               THEN [cron EXCEPT !.scheduled = @ \ {cron.cronJob},
                                 !.cronJob = NoCronJob, !.lastCall = "stop"]
               ELSE [cron EXCEPT !.lastCall = "stop"]
    /\ UNCHANGED <<specVars, pollVars, adapter, settings, call, retry>>

\* the scheduler fires an active task: the callback runs up to
\* await storage.getSettings()
CronFire(task) ==
    /\ task \in cron.scheduled
    /\ cron.run.pc \in {"idle", "done"}
    /\ cron.runs < MaxRuns
    /\ cron' = [cron EXCEPT !.runs = @ + 1,
                            !.run = [NoRun EXCEPT !.task = task,
                                                  !.pc = "getSettings"]]
    /\ UNCHANGED <<specVars, pollVars, adapter, settings, call, retry>>

\* cron.ts 16-32: getSettings answered or threw; return when
\* autoGenerateEnabled is off, else call generateScripts
CronSettingsRead(ok) ==
    /\ cron.run.pc = "getSettings"
    /\ cron' = [cron EXCEPT !.run =
                  IF ~ok THEN RunCaught(@, "getSettings")
                  ELSE IF ~cron.autoGenerateEnabled THEN RunReturns(@)
                  ELSE [@ EXCEPT !.pc = "generateScripts",
                                 !.generated = @ + 1]]
    /\ UNCHANGED <<specVars, pollVars, adapter, settings, call, retry>>

\* cron.ts 28-34: generateScripts answered with n scripts or threw; call
\* storage.createManyScripts
CronScriptsGenerated(n, ok) ==
    /\ cron.run.pc = "generateScripts"
    /\ cron' = [cron EXCEPT !.run =
                  IF ~ok THEN RunCaught(@, "generateScripts")
                  ELSE [@ EXCEPT !.pc = "createManyScripts", !.count = n]]
    /\ UNCHANGED <<specVars, pollVars, adapter, settings, call, retry>>

\* cron.ts 34-49: createManyScripts stored the scripts or threw; with an
\* admin email call sendDailySummaryEmail, else the callback returns
CronScriptsStored(ok) ==
    /\ cron.run.pc = "createManyScripts"
    /\ UNCHANGED <<cfg, tasks, micro, reqCount, lastReq, pollVars, adapter,
                   settings, call, retry>>
    /\ IF ~ok
       THEN /\ cron' = [cron EXCEPT !.run = RunCaught(@, "createManyScripts")]
            /\ UNCHANGED scripts
       ELSE /\ scripts' = scripts \o [i \in 1..cron.run.count |-> NewScript]
            /\ LET ids == (Len(scripts) + 1)..(Len(scripts) + cron.run.count)
               IN cron' = [cron EXCEPT !.run =
                             IF cron.adminEmail
                             THEN [@ EXCEPT !.pc = "sendDailySummaryEmail",
                                            !.stored = ids, !.emails = @ + 1]
                             ELSE RunReturns([@ EXCEPT !.stored = ids])]

\* cron.ts 41-52: sendDailySummaryEmail answered or threw
CronEmailAnswered(ok) ==
    /\ cron.run.pc = "sendDailySummaryEmail"
    /\ cron' = [cron EXCEPT !.run =
                  IF ok THEN RunReturns(@)
                  ELSE RunCaught(@, "sendDailySummaryEmail")]
    /\ UNCHANGED <<specVars, pollVars, adapter, settings, call, retry>>

CronNext ==
    \/ StartCronJobs
    \/ StopCronJobs
    \/ \E task \in 1..MaxCronStarts : CronFire(task)
    \/ \E ok \in BOOLEAN : CronSettingsRead(ok)
    \/ \E n \in 1..MaxBatch, ok \in BOOLEAN : CronScriptsGenerated(n, ok)
    \/ \E ok \in BOOLEAN : CronScriptsStored(ok)
    \/ \E ok \in BOOLEAN : CronEmailAnswered(ok)

CronSpec == CronInit /\ [][CronNext]_vars

\* ------------------------------------------------------------ StoreSpec
\* the script store with each script's status: scripts are created, a user
\* sets their status and the video chains write their video fields, in any
\* order

StoreInit ==
    /\ scripts = <<NewStoredScript>>
    /\ cfg = [arcadsApiKey |-> TRUE, autoGenerateVideos |-> FALSE,
              wav2lipApiUrl |-> TRUE, wav2lipAvatarImageUrl |-> TRUE,
              openaiClient |-> TRUE, preferredVideoProvider |-> "arcads"]
    /\ tasks = <<>>
    /\ micro = NoMicro
    /\ reqCount = 0
    /\ lastReq = Request("none", UnknownId, "")
    /\ poller = IdlePoller
    /\ hist = NoHist
    /\ adapter = IdleAdapter
    /\ settings = IdleSettings
    /\ cron = IdleCron
    /\ call = IdleCall
    /\ retry = IdleRetry

\* storage.ts createManyScripts with n scripts of generateScripts
StoreCreateManyScripts(n) ==
    /\ Len(scripts) + n <= MaxStored
    /\ scripts' = scripts \o [i \in 1..n |-> NewStoredScript]
    /\ call' = [op |-> "createManyScripts", id |-> UnknownId,
                returned |-> <<>>]
    /\ UNCHANGED <<cfg, tasks, micro, reqCount, lastReq, pollVars, adapter,
                   settings, cron, retry>>

\* storage.ts updateScriptStatus(id, status), as PATCH /api/scripts/:id/status
\* calls it
StoreUpdateScriptStatus(id, status) ==
    /\ scripts' = updateScriptStatus(scripts, id, status)
    /\ call' = [op |-> "updateScriptStatus", id |-> id,
                returned |-> ReturnedScript(scripts', id)]
    /\ UNCHANGED <<cfg, tasks, micro, reqCount, lastReq, pollVars, adapter,
                   settings, cron, retry>>

\* storage.ts updateScriptVideo(id, videoStatus, videoUrl, videoJobId), as
\* the handlers and the detached chains call it
StoreUpdateScriptVideo(id, w) ==
    /\ scripts' = updateScriptVideo(scripts, id, w[1], w[2], w[3])
    /\ call' = [op |-> "updateScriptVideo", id |-> id,
                returned |-> ReturnedScript(scripts', id)]
    /\ UNCHANGED <<cfg, tasks, micro, reqCount, lastReq, pollVars, adapter,
                   settings, cron, retry>>

StoreNext ==
    \/ \E n \in 1..MaxStored : StoreCreateManyScripts(n)
    \/ \E id \in DOMAIN scripts \cup {UnknownId}, status \in scriptStatuses :
          StoreUpdateScriptStatus(id, status)
    \/ \E id \in DOMAIN scripts \cup {UnknownId}, w \in VideoWrites :
          StoreUpdateScriptVideo(id, w)

StoreSpec == StoreInit /\ [][StoreNext]_vars

\* ------------------------------------------------------------ RetrySpec
\* one generateScripts call; the completion call answers, or throws one of
\* the sample errors

RetryInit ==
    /\ scripts = <<NewScript>>
    /\ cfg = [arcadsApiKey |-> TRUE, autoGenerateVideos |-> FALSE,
              wav2lipApiUrl |-> TRUE, wav2lipAvatarImageUrl |-> TRUE,
              openaiClient |-> TRUE, preferredVideoProvider |-> "arcads"]
    /\ tasks = <<>>
    /\ micro = NoMicro
    /\ reqCount = 0
    /\ lastReq = Request("none", UnknownId, "")
    /\ poller = IdlePoller
    /\ hist = NoHist
    /\ adapter = IdleAdapter
    /\ settings = IdleSettings
    /\ cron = IdleCron
    /\ call = IdleCall
    /\ retry \in {NewRetry(count) : count \in 1..MaxBatch}

\* openai.ts generateScripts up to the first completion call
RetryGenerateScripts ==
    /\ retry.pc = "idle"
    /\ retry' = [retry EXCEPT !.pc = "calling", !.calls = 1]
    /\ UNCHANGED <<specVars, pollVars, adapter, settings, cron, call>>

\* the completion call threw error
RetryCompletionThrew(error) ==
    /\ retry.pc = "calling"
    /\ retry' = RetryFailed(retry, error)
    /\ UNCHANGED <<specVars, pollVars, adapter, settings, cron, call>>

\* p-retry's timer fired: the completion call is made again
RetryBackoffElapsed ==
    /\ retry.pc = "backoff"
    /\ retry' = [retry EXCEPT !.pc = "calling", !.calls = @ + 1]
    /\ UNCHANGED <<specVars, pollVars, adapter, settings, cron, call>>

\* the completion call answered with n scripts in its content (0: no
\* script could be parsed from it): openai.ts 128-181
RetryCompletionAnswered(n) ==
    /\ retry.pc = "calling"
    /\ retry' = IF n = 0 THEN RetryRejects(retry)
                ELSE [retry EXCEPT !.pc = "done", !.result = "scripts",
                                   !.returned = n]
    /\ UNCHANGED <<specVars, pollVars, adapter, settings, cron, call>>

RetryNext ==
    \/ RetryGenerateScripts
    \/ \E error \in ErrorSamples : RetryCompletionThrew(error)
    \/ RetryBackoffElapsed
    \/ \E n \in 0..MaxBatch : RetryCompletionAnswered(n)

RetrySpec == RetryInit /\ [][RetryNext]_vars

TypeOK ==
    /\ \A i \in DOMAIN scripts : scripts[i].videoStatus \in videoStatuses
    /\ Len(tasks) <= MaxTasks

\* ================================================================ claims

MaxScripts == 1 + MaxRequests * MaxBatch

\* a request of a video endpoint for script id is handled in this step
VideoRequest(id) ==
    /\ reqCount' = reqCount + 1
    /\ lastReq'.endpoint \in {"arcads", "wav2lip"}
    /\ lastReq'.script = id

\* the chains that hold a provider job that was started and has not settled
ActiveJobs(id) ==
    {t \in DOMAIN tasks : tasks[t].script = id /\ tasks[t].pc = "polling"}

\* C1: a video request, at either endpoint, for a script whose stored
\* videoStatus is pending or generating is rejected, starts no provider job
\* and leaves the stored videoStatus, videoUrl and videoJobId unchanged.
C1_NoDuplicateJobs ==
    [][\A id \in DOMAIN scripts :
          (scripts[id].videoStatus \in InProgress /\ VideoRequest(id))
          => /\ CodeOf(lastReq') = 400
             /\ tasks' = tasks
             /\ scripts'[id] = scripts[id]]_vars

\* C2: at any time at most one provider job of a script is active (started
\* and not yet settled), whatever the interleaving of the request handlers.
C2_AtMostOneActiveJob ==
    \A id \in DOMAIN scripts : Cardinality(ActiveJobs(id)) <= 1

\* C3: a poller reports success only for an answer that carries a
\* completed/complete status together with a result URL.
C3_SuccessRequiresUrl ==
    poller.outcome = "success"
    => /\ ~hist.last.throws
       /\ hist.last.status \in {"completed", "complete"}
       /\ hist.last.url # NoUrl

\* C4: a script whose stored videoStatus is complete has a non-null stored
\* videoUrl, the result URL the provider reported for its job.
C4_CompleteHasUrl ==
    \A id \in DOMAIN scripts :
        scripts[id].videoStatus = "complete"
        => /\ scripts[id].videoUrl # NoUrl
           /\ scripts[id].videoUrl = UrlOf(scripts[id].videoJobId)

\* C5: once a status query was answered with status failed, the poller makes
\* no further status query for the job.
C5_NoQueryAfterFailed == ~hist.afterFailed

\* C6: with maxAttempts = N the poller never makes more than N status
\* queries and never hangs (while it runs it can query or give up); fed only
\* processing answers it ends after exactly N queries with a timeout.
C6_PollBounded ==
    /\ hist.queries <= poller.max
    /\ poller.outcome = "running" => (CanQuery(poller) \/ CanExpire(poller))
    /\ (poller.outcome # "running" /\ hist.onlyProcessing)
       => (hist.queries = poller.max /\ poller.outcome = "timeout")

\* the self-hosted poller timed out after 60 processing answers
C6_Witness ==
    /\ poller.kind = "wav2lip"
    /\ poller.outcome = "timeout"
    /\ hist.onlyProcessing
    /\ hist.queries = MAX_POLL_ATTEMPTS

\* C7: at every call site, when the adapter's start call fails after pending
\* was stored, the script's stored videoStatus becomes failed.
C7_StartFailureStoresFailed ==
    [][\A t \in DOMAIN tasks :
          (~tasks[t].startFailed /\ tasks'[t].startFailed)
          => scripts'[tasks[t].script].videoStatus = "failed"]_vars

\* C8: a script that is generating eventually is complete or failed; a
\* poller's success stores complete, its failure or timeout stores failed,
\* and the request was answered "started" before, once and for all.
C8_GeneratingSettles ==
    /\ \A id \in 1..MaxScripts :
          (id \in DOMAIN scripts /\ scripts[id].videoStatus = "generating")
          ~> (id \in DOMAIN scripts
              /\ scripts[id].videoStatus \in {"complete", "failed"})
    /\ [][\A t \in DOMAIN tasks :
             tasks[t].pc = "polling"
             => /\ tasks[t].http = 200
                /\ tasks'[t].http = 200
                /\ tasks'[t].pc = "done"
                   => scripts'[tasks[t].script].videoStatus =
                        (IF tasks'[t].poll.outcome = "success"
                         THEN "complete" ELSE "failed")]_vars

\* a poll that failed or timed out left its script failed, after "started"
C8_Witness ==
    \E t \in DOMAIN tasks :
        /\ tasks[t].pc = "done"
        /\ tasks[t].poll.outcome \in {"failed", "timeout", "error"}
        /\ tasks[t].http = 200
        /\ scripts[tasks[t].script].videoStatus = "failed"

LegalTransition(a, b) ==
    \/ a \in {"none", "failed", "complete"} /\ b = "pending"
    \/ a = "pending" /\ b = "generating"
    \/ a = "generating" /\ b \in {"complete", "failed"}

\* C9: every change of a script's stored videoStatus is none|failed|complete
\* to pending, pending to generating, or generating to complete or failed.
C9_OrderedLifecycle ==
    [][\A id \in DOMAIN scripts :
          scripts'[id].videoStatus # scripts[id].videoStatus
          => LegalTransition(scripts[id].videoStatus,
                             scripts'[id].videoStatus)]_vars

\* the chains that store a status in this step
Writers(id) ==
    {t \in DOMAIN tasks :
        tasks[t].script = id /\ tasks'[t].wrote # tasks[t].wrote}

\* C10: complete or failed is stored only by a job attempt, that is by a
\* chain that has called the adapter's start operation; complete only by an
\* attempt that stored generating before.
C10_AttemptOrder ==
    [][\A id \in DOMAIN scripts :
          (scripts'[id] # scripts[id]
             /\ scripts'[id].videoStatus \in {"complete", "failed"})
          => \E t \in Writers(id) :
                /\ scripts'[id].videoStatus \in tasks'[t].wrote
                /\ "pending" \in tasks[t].wrote
                /\ scripts'[id].videoStatus = "complete"
                   => "generating" \in tasks[t].wrote]_vars

\* one attempt stored complete after generating, another failed at its start
C10_Witness ==
    \E t, u \in DOMAIN tasks :
        /\ tasks[t].wrote = {"pending", "generating", "complete"}
        /\ tasks[u].wrote = {"pending", "failed"}

C14_NoAudioNoVideoRequest ==
    (adapter.kind = "wav2lip" /\ adapter.op = "generateVideo")
    => /\ adapter.audio = "null"
          => /\ adapter.result = AudioError
             /\ adapter.pc = "idle"
             /\ adapter.callFetches = 0
       /\ ~adapter.openaiClient
          => (adapter.audio = "null" /\ adapter.speechCalls = 0)
       /\ adapter.pc = "tts" => adapter.callFetches = 0

\* the speech call of a configured client threw and generateVideo rejected
C14_Witness ==
    /\ adapter.kind = "wav2lip"
    /\ adapter.openaiClient
    /\ adapter.speechCalls > 0
    /\ adapter.op = "generateVideo"
    /\ adapter.audio = "null"
    /\ adapter.result = AudioError
    /\ adapter.callFetches = 0
    /\ adapter.fetches > 0

\* the answer of a request that was turned down with nothing done
Rejected(code) ==
    /\ CodeOf(lastReq') = code
    /\ tasks' = tasks
    /\ scripts' = scripts
    /\ micro' = micro

\* C12: a video request for a stored script whose provider configuration is
\* absent (Arcads: the API key; Wav2Lip: the API URL, or an avatar image URL
\* in neither the request nor the settings) is answered 400 in the handler's
\* own run, starts no job and leaves every stored script as it was.
C12_ConfigAbsentRejected ==
    [][\A id \in DOMAIN scripts :
          /\ (ArcadsGenerateVideo(id) /\ ~cfg.arcadsApiKey) => Rejected(400)
          /\ \A a \in BOOLEAN :
                (Wav2LipGenerateVideo(id, a)
                   /\ (~cfg.wav2lipApiUrl
                         \/ ~(a \/ cfg.wav2lipAvatarImageUrl)))
                => Rejected(400)]_vars

\* a request without avatar image was turned down and the script kept the
\* video of its earlier job
C12_Witness ==
    /\ lastReq.error = "Avatar image URL is required"
    /\ lastReq.script \in DOMAIN scripts
    /\ scripts[lastReq.script].videoStatus = "complete"
    /\ scripts[lastReq.script].videoUrl # NoUrl

\* C13: a video request that names a script the store does not hold is
\* answered 404 "Script not found", whatever the configuration, writes
\* nothing to the store and starts no job.
C13_UnknownScriptNotFound ==
    [][(/\ reqCount' = reqCount + 1
        /\ lastReq'.endpoint \in {"arcads", "wav2lip"}
        /\ lastReq'.script \notin DOMAIN scripts
        /\ lastReq'.script # MissingId)
       => /\ lastReq'.error = "Script not found"
          /\ Rejected(404)]_vars

\* not found was answered although no provider is configured
C13_Witness ==
    /\ lastReq.endpoint \in {"arcads", "wav2lip"}
    /\ lastReq.script = UnknownId
    /\ lastReq.error = "Script not found"
    /\ ~cfg.arcadsApiKey
    /\ ~cfg.wav2lipApiUrl

\* C15: a script whose stored videoStatus is complete or failed keeps its
\* three video fields until a video request for it is accepted, which stores
\* pending; no detached task changes them.
C15_TerminalStaysPut ==
    [][\A id \in DOMAIN scripts :
          (scripts[id].videoStatus \in {"complete", "failed"}
             /\ scripts'[id] # scripts[id])
          => /\ VideoRequest(id)
             /\ lastReq'.error = ""
             /\ scripts'[id].videoStatus = "pending"]_vars

\* C16: a stored videoUrl is non-null only while the stored videoStatus is
\* complete.
C16_UrlOnlyWhenComplete ==
    \A id \in DOMAIN scripts :
        scripts[id].videoUrl # NoUrl => scripts[id].videoStatus = "complete"

\* a job stored complete with its URL, and a later request cleared the URL
C16_Witness ==
    \E t \in DOMAIN tasks :
        /\ tasks[t].pc = "done"
        /\ "complete" \in tasks[t].wrote
        /\ tasks[t].poll.url # NoUrl
        /\ scripts[tasks[t].script].videoStatus \in InProgress
        /\ scripts[tasks[t].script].videoUrl = NoUrl

C18_AnsweredBeforeTerminal ==
    [][\A t \in DOMAIN tasks :
          ((tasks'[t].wrote \ tasks[t].wrote) \cap {"complete", "failed"} # {})
          => /\ tasks[t].http = 200
             /\ tasks'[t].http = tasks[t].http]_vars

\* the poller of a request of the Arcads endpoint stored complete
C18_Witness ==
    \E t \in DOMAIN tasks :
        /\ tasks[t].kind = "arcads"
        /\ tasks[t].pc = "done"
        /\ "complete" \in tasks[t].wrote
        /\ tasks[t].http = 200
        /\ scripts[tasks[t].script].videoStatus = "complete"

\* the scripts whose stored video fields change in this step
Touched == {id \in DOMAIN scripts : scripts'[id] # scripts[id]}

\* C19: every step changes the video fields of at most one script, and only
\* by a request for that script, by the batch loop reaching it or by a chain
\* of that script; the batch loop gives each script its pending and its own
\* chain whatever became of the others; and every batch chain under way ends
\* with its own script stored complete or failed.
C19_BatchIndependent ==
    /\ [][/\ Cardinality(Touched) <= 1
          /\ \A id \in Touched :
                \/ VideoRequest(id)
                \/ micro.batch # <<>> /\ Head(micro.batch).id = id
                \/ \E t \in DOMAIN tasks :
                      tasks[t].script = id /\ tasks'[t] # tasks[t]]_vars
    /\ [][(micro.batch # <<>> /\ micro' # micro
             /\ cfg.arcadsApiKey /\ cfg.autoGenerateVideos)
          => LET id == Head(micro.batch).id IN
             /\ scripts'[id].videoStatus = "pending"
             /\ tasks' = Append(tasks, NewTask("batch", id, "starting", 200))
             /\ \A t \in DOMAIN tasks : tasks[t].script # id]_vars
    /\ \A t \in TaskIds :
          (t \in DOMAIN tasks /\ tasks[t].kind = "batch"
             /\ tasks[t].pc # "done")
          ~> (/\ t \in DOMAIN tasks
              /\ tasks[t].pc = "done"
              /\ scripts[tasks[t].script].videoStatus \in {"complete", "failed"})

\* of two scripts of a batch one failed and the other has its video
C19_Witness ==
    \E t, u \in DOMAIN tasks :
        /\ tasks[t].kind = "batch" /\ tasks[u].kind = "batch"
        /\ tasks[t].script # tasks[u].script
        /\ tasks[t].pc = "done" /\ tasks[u].pc = "done"
        /\ scripts[tasks[t].script].videoStatus = "failed"
        /\ scripts[tasks[u].script].videoStatus = "complete"
        /\ scripts[tasks[u].script].videoUrl = UrlOf(tasks[u].jobId)

\* C20: while every answer was plain (an answer that neither says failed nor
\* shows a result) the poller goes on, up to its attempt limit; the first
\* answer that shows completion with a result URL then makes it resolve with
\* that URL at once, and a resolved poller makes no further query.
C20_ResolvesAtFirstResult ==
    /\ (hist.plain /\ Plain(poller.kind, hist.last))
       => \/ poller.outcome = "running"
          \/ poller.outcome = "timeout" /\ hist.queries = poller.max
    /\ (hist.queries > 0 /\ hist.plain /\ ShowsResult(poller.kind, hist.last))
       => (poller.outcome = "success" /\ poller.url = hist.last.url)
    /\ poller.outcome = "success"
       => (~CanQuery(poller) /\ ~CanExpire(poller))

\* the texts of seq joined, one space between neighbours
RECURSIVE JoinBySpace(_)
JoinBySpace(seq) ==
    IF Len(seq) = 0 THEN ""
    ELSE IF Len(seq) = 1 THEN seq[1]
    ELSE seq[1] \o " " \o JoinBySpace(Tail(seq))

\* C21: the text an adapter submits for a script (Arcads in its request body,
\* the self-hosted adapter to the speech call) is the script's hook, body and
\* cta, in that order, joined by single spaces.
C21_TextIsHookBodyCta ==
    adapter.sent # <<>>
    => adapter.sent = <<JoinBySpace(<<adapter.script.hook,
                                      adapter.script.body,
                                      adapter.script.cta>>)>>

\* the self-hosted adapter submitted the text of a script of three different
\* parts, one of them of two words
C21_Witness ==
    /\ adapter.kind = "wav2lip"
    /\ adapter.sent = <<"Stop a b Go!">>
    /\ adapter.script.body = "a b"

\* C22: updateSettings with a partial object changes exactly the fields the
\* object supplies (those of the self-hosted provider and the provider choice
\* included) and lastUpdated, keeps every other stored field, and returns the
\* merged object; a following getSettings returns the stored object.
C22_UpdateMergesPartial ==
    [][/\ \A insert \in PartialSettings(settings.clock + 1) :
             UpdateSettings(insert)
             => /\ \A f \in InsertSettingsFields :
                      Get(settings'.stored, f)
                         = IF f \in DOMAIN insert THEN insert[f]
                           ELSE Get(settings.stored, f)
                /\ Get(settings'.stored, "lastUpdated") = settings.clock + 1
                /\ settings'.returned = settings'.stored
       /\ GetSettings => settings'.returned = settings.stored]_vars

\* C23: after any sequence of startCronJobs and stopCronJobs calls at most
\* one scheduled task is active; after stopCronJobs no task created earlier
\* is still active; stopCronJobs with no job scheduled changes nothing.
C23_AtMostOneScheduledTask ==
    /\ [](Cardinality(cron.scheduled) <= 1)
    /\ [](cron.lastCall = "stop" => cron.scheduled = {})
    /\ [][(StopCronJobs /\ cron.cronJob = NoCronJob)
          => /\ cron'.scheduled = cron.scheduled
             /\ cron'.cronJob = NoCronJob]_vars

\* script id has been handed to video generation: it waits in the batch of
\* triggerVideoGeneration, has a chain, or has left videoStatus none
Triggered(id) ==
    \/ \E i \in DOMAIN micro.batch : micro.batch[i].id = id
    \/ \E t \in DOMAIN tasks : tasks[t].script = id
    \/ scripts[id].videoStatus # "none"

\* C24: a scheduled run that stored new scripts has, with autoGenerateVideos
\* enabled (and the Arcads key present), triggered video generation for every
\* one of them, and with autoGenerateVideos disabled for none.
C24_CronTriggersVideos ==
    (cron.run.pc = "done" /\ cron.run.stored # {})
    => IF cfg.arcadsApiKey /\ cfg.autoGenerateVideos
       THEN \A id \in cron.run.stored : Triggered(id)
       ELSE \A id \in cron.run.stored : ~Triggered(id)

\* C25: a scheduled run under autoGenerateEnabled false calls no generation,
\* stores no script and sends no email; and whichever of the settings read,
\* the generation, the storing or the email fails, the callback's promise
\* resolves: the run is over and nothing was thrown.
C25_CronRunNeverThrows ==
    /\ ~cron.autoGenerateEnabled
       => /\ cron.run.generated = 0
          /\ cron.run.stored = {}
          /\ cron.run.emails = 0
          /\ scripts = <<NewScript>>
    /\ cron.run.failedAt # "none"
       => (cron.run.pc = "done" /\ cron.run.result = "resolved")
    /\ cron.run.result # "rejected"
    /\ cron.run.pc = "done" => cron.run.result = "resolved"

\* the second run stored its scripts and then failed to send the email
C25_Witness ==
    /\ cron.runs = 2
    /\ cron.run.failedAt = "sendDailySummaryEmail"
    /\ cron.run.stored # {}
    /\ cron.run.result = "resolved"

\* C26: for each poller, an answer whose status is completed or complete and
\* that carries a result URL is a success with that URL, whichever of the
\* two words it uses.
C26_EitherCompletionWord ==
    (/\ hist.queries > 0
     /\ ~hist.last.throws
     /\ hist.last.status \in {"completed", "complete"}
     /\ hist.last.url # NoUrl)
    => (poller.outcome = "success" /\ poller.url = hist.last.url)

\* C27: for both pollers the provider-failure outcome is that of a poll whose
\* last answer said failed, and the timeout outcome is that of a poll that
\* used up its attempts and never met an answer saying failed.
C27_FailureNamesItsCause ==
    /\ poller.outcome = "failed"
       => (hist.failedSeen /\ hist.last.status = "failed")
    /\ poller.outcome = "timeout"
       => (~hist.failedSeen /\ hist.queries = poller.max)

\* C28: for both pollers a status query that throws does not end the poll:
\* the poller goes on (or, at its limit, times out), and the query counts as
\* one attempt.
C28_ThrowingQueryRetried ==
    (hist.queries > 0 /\ hist.last.throws)
    => /\ poller.outcome \in {"running", "timeout"}
       /\ poller.outcome = "running" => poller.attempt = hist.queries

\* the request for script id passed the handler's checks: the record is
\* pending without URL and job id, and a new chain stands at its adapter call
Accepted(id) ==
    /\ lastReq'.error = ""
    /\ scripts'[id] = [videoStatus |-> "pending", videoUrl |-> NoUrl,
                       videoJobId |-> NoJob]
    /\ Len(tasks') = Len(tasks) + 1
    /\ \A t \in DOMAIN tasks : tasks'[t] = tasks[t]
    /\ LET new == tasks'[Len(tasks')] IN
          /\ new.script = id
          /\ new.pc \in {"starting", "tts", "noTts"}
          /\ new.jobId = NoJob

\* C29: a video request, at either endpoint, for a script whose stored
\* videoStatus is none, failed or complete, with the endpoint's provider
\* configuration present, is accepted: the record is reset to pending with a
\* null videoUrl and a null videoJobId, and the adapter is called on it.
C29_TerminalScriptAccepted ==
    [][\A id \in DOMAIN scripts :
          scripts[id].videoStatus \in {"none", "failed", "complete"}
          => /\ (ArcadsGenerateVideo(id) /\ cfg.arcadsApiKey) => Accepted(id)
             /\ \A a \in BOOLEAN :
                   (Wav2LipGenerateVideo(id, a)
                      /\ cfg.wav2lipApiUrl
                      /\ (a \/ cfg.wav2lipAvatarImageUrl))
                   => Accepted(id)]_vars

\* a script whose earlier job had failed was requested again at the
\* self-hosted endpoint and is pending, its new chain at the speech call
C29_Witness ==
    \E t \in DOMAIN tasks :
        /\ t < Len(tasks)
        /\ tasks[t].script = tasks[Len(tasks)].script
        /\ tasks[t].pc = "done"
        /\ tasks[t].wrote = {"pending", "generating", "failed"}
        /\ tasks[Len(tasks)].kind = "wav2lip"
        /\ tasks[Len(tasks)].pc = "tts"
        /\ lastReq.endpoint = "wav2lip"
        /\ lastReq.error = ""
        /\ scripts[tasks[t].script].videoStatus = "pending"
        /\ scripts[tasks[t].script].videoJobId = NoJob

\* C30: when a poll chain stores complete or failed for its script, the
\* videoJobId stored for the script in that moment is the job id the chain
\* was polling.
C30_PollerWritesOwnJob ==
    [][\A t \in DOMAIN tasks :
          (tasks[t].pc = "polling" /\ tasks'[t].pc = "done")
          => scripts[tasks[t].script].videoJobId = tasks[t].jobId]_vars

\* the chains of script id that have not ended
RunningFor(id) ==
    {t \in DOMAIN tasks : tasks[t].script = id /\ tasks[t].pc # "done"}

\* C31: whenever a script's stored videoStatus is pending or generating, a
\* detached task of that script (a start call or a poller) is still running
\* and will write its next status.
C31_InProgressHasTask ==
    \A id \in DOMAIN scripts :
        scripts[id].videoStatus \in InProgress => RunningFor(id) # {}

\* C32: the batch loop resets to pending, and starts a provider job for, only
\* a script whose stored videoStatus at that moment is none; a script a
\* request has set to pending or generating is not touched by it.
C32_BatchOnlyFreshScripts ==
    [][TriggerVideoGeneration
       => \A id \in DOMAIN scripts :
             (\/ scripts'[id] # scripts[id]
              \/ /\ Len(tasks') > Len(tasks)
                 /\ tasks'[Len(tasks')].script = id)
             => scripts[id].videoStatus = "none"]_vars

\* the batch loop gave a new script its chain while the chain of a request
\* for another script was under way
C32_Witness ==
    \E t \in DOMAIN tasks, u \in DOMAIN tasks :
        /\ tasks[t].kind = "batch" /\ tasks[t].pc = "starting"
        /\ tasks[u].kind # "batch" /\ tasks[u].pc = "polling"
        /\ u < t
        /\ scripts[tasks[t].script].videoStatus = "pending"
        /\ scripts[tasks[u].script].videoStatus = "generating"

\* C33: without the Arcads API key, or with autoGenerateVideos off, script
\* generation starts no provider job and the batch leaves every script as it
\* is, the new ones with videoStatus none, a null videoUrl and a null
\* videoJobId; and the answer of a script-generation request is not changed
\* by anything that happens after it was given.
C33_NoAutoVideoWhenOff ==
    /\ []((~cfg.arcadsApiKey \/ ~cfg.autoGenerateVideos)
          => \A t \in DOMAIN tasks : tasks[t].kind # "batch")
    /\ [][(/\ ~cfg.arcadsApiKey \/ ~cfg.autoGenerateVideos
           /\ \E n \in 1..MaxBatch : GenerateScripts(n, TRUE))
          => /\ tasks' = tasks
             /\ lastReq'.error = ""
             /\ \A id \in DOMAIN scripts : scripts'[id] = scripts[id]
             /\ \A id \in DOMAIN scripts' \ DOMAIN scripts :
                   scripts'[id] = [videoStatus |-> "none", videoUrl |-> NoUrl,
                                   videoJobId |-> NoJob]]_vars
    /\ [][(/\ ~cfg.arcadsApiKey \/ ~cfg.autoGenerateVideos
           /\ TriggerVideoGeneration)
          => (scripts' = scripts /\ tasks' = tasks)]_vars
    /\ [][(lastReq.endpoint = "generate" /\ lastReq' # lastReq)
          => reqCount' = reqCount + 1]_vars

\* with the key present and autoGenerateVideos off, scripts were generated,
\* the batch returned and the new scripts have no video
C33_Witness ==
    /\ cfg.arcadsApiKey /\ ~cfg.autoGenerateVideos
    /\ lastReq.endpoint = "generate"
    /\ lastReq.error = ""
    /\ micro = NoMicro
    /\ Len(scripts) = 1 + MaxBatch
    /\ \A id \in 2..Len(scripts) : scripts[id] = NewScript

\* C34: every job of the automatic video generation for new scripts goes to
\* the provider that settings.preferredVideoProvider names.
C34_BatchUsesPreferredProvider ==
    \A t \in DOMAIN tasks :
        tasks[t].kind = "batch"
        => tasks[t].poll.kind = cfg.preferredVideoProvider

\* C35: generateScripts makes a further completion call only after a
\* rate-limit or quota error, and at most RETRIES of them (RETRIES + 1 calls);
\* another error ends it at the call that threw it; and when it rejects it
\* returns no script.
C35_RetryOnlyRateLimit ==
    /\ retry.calls <= RETRIES + 1
    /\ \A i \in DOMAIN retry.errors :
          \/ retry.errors[i]
          \/ /\ i = Len(retry.errors)
             /\ retry.calls = i
             /\ retry.pc = "done"
             /\ retry.result = "rejected"
    /\ retry.pc = "backoff" => retry.calls <= RETRIES
    /\ (retry.pc = "done" /\ Len(retry.errors) = retry.calls)
       => retry.result = "rejected"
    /\ (Len(retry.errors) = retry.calls /\ retry.calls > 0
        /\ retry.errors[retry.calls] /\ retry.calls <= RETRIES)
       => retry.pc = "backoff"
    /\ retry.result = "rejected" => retry.returned = 0

\* five retries after rate-limit errors were used up and the sixth call met a
\* quota error
C35_Witness ==
    /\ retry.calls = RETRIES + 1
    /\ Len(retry.errors) = RETRIES + 1
    /\ retry.errors[RETRIES + 1]
    /\ retry.lastError = <<"Q", "u", "o", "t", "a", " ", "u", "s", "e", "d">>
    /\ retry.result = "rejected"

\* C36: the self-hosted adapter takes the job id of a start answer from
\* job_id, or else from jobId, and the result URL of any answer from
\* video_url, or else from videoUrl; a start answer without status is
\* returned with status pending.
C36_BothKeySpellings ==
    [][\A data \in ResponseData :
          (adapter.kind = "wav2lip" /\ AdapterFetchAnswered(TRUE, data))
          => /\ adapter'.response.videoUrl
                   = IF data.video_url # NoKey THEN data.video_url
                     ELSE data.videoUrl
             /\ adapter.op = "generateVideo"
                => /\ adapter'.response.jobId
                         = IF data.job_id # NoKey THEN data.job_id
                           ELSE data.jobId
                   /\ adapter'.response.status
                         = IF data.status # NoKey THEN data.status
                           ELSE "pending"]_vars

\* a start answer with the job id under jobId only and no status
C36_Witness ==
    /\ adapter.kind = "wav2lip"
    /\ adapter.op = "generateVideo"
    /\ adapter.result = "ok"
    /\ adapter.response = [jobId |-> "job-camel", status |-> "pending",
                           videoUrl |-> "url-snake"]

\* script id after a call, given its fields before it
Only(id, status, w) ==
    /\ scripts' = [scripts EXCEPT ![id] =
                      [status |-> status, videoStatus |-> w[1],
                       videoUrl |-> w[2], videoJobId |-> w[3]]]
    /\ call'.returned = <<scripts'[id]>>

\* the video fields of a stored script
VideoOf(s) == <<s.videoStatus, s.videoUrl, s.videoJobId>>

\* C37: updateScriptStatus changes the status field of its script and
\* nothing else, updateScriptVideo its videoStatus, videoUrl and videoJobId
\* and nothing else, whatever the other fields hold from earlier calls of
\* either; for an unknown id both return undefined and change nothing.
C37_UpdatesTouchOwnFields ==
    [][\A id \in DOMAIN scripts \cup {UnknownId} :
          /\ \A status \in scriptStatuses :
                StoreUpdateScriptStatus(id, status)
                => IF id \in DOMAIN scripts
                   THEN Only(id, status, VideoOf(scripts[id]))
                   ELSE scripts' = scripts /\ call'.returned = <<>>
          /\ \A w \in VideoWrites :
                StoreUpdateScriptVideo(id, w)
                => IF id \in DOMAIN scripts
                   THEN Only(id, scripts[id].status, w)
                   ELSE scripts' = scripts /\ call'.returned = <<>>]_vars

\* a user archived a script whose video was complete, and the video is kept
C37_Witness ==
    /\ call.op = "updateScriptStatus"
    /\ call.id = 1
    /\ scripts[1] = [status |-> "archived", videoStatus |-> "complete",
                     videoUrl |-> UrlOf(StoreJob), videoJobId |-> StoreJob]

\* C38: in every state of the store getStats().videosGenerating is the
\* number of scripts getScriptsWithPendingVideos returns, videosComplete the
\* number of scripts with videoStatus complete, and pendingScripts,
\* usedScripts and archivedScripts add up to totalScripts.
C38_StatsAgree ==
    LET stats == getStats(scripts) IN
    /\ stats.videosGenerating
          = Cardinality(getScriptsWithPendingVideos(scripts))
    /\ stats.videosComplete
          = Cardinality({i \in DOMAIN scripts :
                            scripts[i].videoStatus = "complete"})
    /\ stats.pendingScripts + stats.usedScripts + stats.archivedScripts
          = stats.totalScripts
    /\ stats.totalScripts = Len(scripts)

\* one used script with a pending video next to one archived script with a
\* complete video
C38_Witness ==
    /\ Len(scripts) = 2
    /\ scripts[1].status = "used" /\ scripts[1].videoStatus = "pending"
    /\ scripts[2].status = "archived" /\ scripts[2].videoStatus = "complete"

====
